---------------------------- MODULE Spec2Model ----------------------------
(***************************************************************************)
(* Model of tlaloc_api_builder.builder: the build pipeline of one builder  *)
(* object (file tree -> structure -> methods -> aggregate CloudFormation   *)
(* template) and the line preprocessor _clean_mjs.                         *)
(*                                                                         *)
(* A Python string is a sequence of tokens.  A token is either the         *)
(* separator "/" or a non-empty piece of text holding no separator, so     *)
(* "src/API/users" is <<"src", "/", "API", "/", "users">> and "" is <<>>.  *)
(* split("/") and "/".join are computed on that representation.            *)
(***************************************************************************)
EXTENDS Integers, Sequences, FiniteSets, TLC

VARIABLES
    config,       \* self.config
    built,        \* self.built
    tree,         \* the directories and files below <path>/API on disk
    order,        \* the order in which the file system lists directory entries
    filetree,     \* self.building["filetree"]
    structure,    \* self.building["structure"]
    methods,      \* self.building["methods"] (insertion-ordered dict)
    template,     \* the aggregate template written by _aws_build_apigateway
    pc,           \* the position of build() in its sequence of steps
    error,        \* the exception that ended build(), "" when none
    identities,   \* every (deployer, resource, verb, hash) any build produced
    builds,       \* the number of builders constructed so far
    original,     \* the source file a staged copy was made from
    staged,       \* the staged copy that _clean_mjs reads and rewrites
    lineno,       \* the number of lines _clean_mjs has read
    rules,        \* the local list `rules` of _clean_mjs
    file_clean,   \* the local string `file_clean` of _clean_mjs (as lines)
    cpc,          \* the position of _clean_mjs
    cerror,       \* the exception that ended _clean_mjs, "" when none
    runs,         \* the number of times _clean_mjs was called on the staged file
    previous,     \* what the staged file held before _clean_mjs last wrote it
    userConfig,   \* the argument `config` of builder.__init__
    imported,     \* what the import statement of the test module bound or raised
    result,       \* what the test module's call of api_builder returned
    fs,           \* the regular files on disk: path |-> lines
    fsdirs,       \* the directories that exist at or below path_temporal
    exits,        \* the commands of this build whose os.system status was not 0
    deployed,     \* self.deployed
    uploaded,     \* the objects of the S3 bucket: key |-> content
    dpc,          \* the position of deploy() in its sequence of steps
    derror,       \* the exception that ended deploy(), "" when none
    calls,        \* the calls of build() and deploy() made after the first build()
    edited        \* the source tree was edited since the last build()

vars == <<config, built, tree, order, filetree, structure, methods, template,
          pc, error, identities, builds, original, staged, lineno, rules,
          file_clean, cpc, cerror, runs, previous, userConfig, imported,
          result, fs, fsdirs, exits, deployed, uploaded, dpc, derror, calls,
          edited>>

buildVars == <<config, built, tree, order, filetree, structure, methods,
               template, pc, error, identities, builds>>

cleanVars == <<original, staged, lineno, rules, file_clean, cpc, cerror, runs,
               previous>>

callerVars == <<userConfig, imported, result>>

packVars == <<fs, fsdirs, exits>>

deployVars == <<deployed, uploaded, dpc, derror, calls, edited>>

otherVars == <<callerVars, packVars, deployVars>>

-----------------------------------------------------------------------------
(* Bounds of the model *)

MaxEndpoints == 2   \* directories picked to span the source tree
MaxBuilds == 2      \* builders constructed over the same source tree
MaxLines == 5       \* lines of a preprocessed file
MaxRuns == 2        \* calls of _clean_mjs on one staged file
MaxBadFields == 1   \* required keys of a configuration that are no valid string
MaxCalls == 2       \* calls of build() and deploy() after the first build()

-----------------------------------------------------------------------------
(* Python strings and paths *)

Str(t) == <<t>>

RECURSIVE SplitFrom(_, _)
SplitFrom(s, cur) ==
    IF s = <<>> THEN <<cur>>
    ELSE IF Head(s) = "/" THEN <<cur>> \o SplitFrom(Tail(s), <<>>)
    ELSE SplitFrom(Tail(s), Append(cur, Head(s)))

\* s.split("/")
split(s) == SplitFrom(s, <<>>)

\* "/".join(parts)
RECURSIVE join(_)
join(parts) ==
    IF parts = <<>> THEN <<>>
    ELSE IF Len(parts) = 1 THEN parts[1]
    ELSE parts[1] \o <<"/">> \o join(Tail(parts))

\* parts[a:-1] for a >= 0 (Python slice, 0-based start)
SliceToLast(parts, a) == SubSeq(parts, a + 1, Len(parts) - 1)

\* os.path.join(a, b)
os_path_join(a, b) ==
    IF b # <<>> /\ Head(b) = "/" THEN b
    ELSE IF a = <<>> \/ a[Len(a)] = "/" THEN a \o b
    ELSE a \o <<"/">> \o b

\* p.rfind("/") + 1
LastSlash(p) ==
    LET at == {i \in 1..Len(p) : p[i] = "/"}
    IN  IF at = {} THEN 0 ELSE CHOOSE i \in at : \A j \in at : j <= i

RECURSIVE rstrip_slash(_)
rstrip_slash(p) ==
    IF p # <<>> /\ p[Len(p)] = "/" THEN rstrip_slash(SubSeq(p, 1, Len(p) - 1))
    ELSE p

\* os.path.dirname(p)
os_path_dirname(p) ==
    LET head == SubSeq(p, 1, LastSlash(p))
    IN  IF head # <<>> /\ \E i \in 1..Len(head) : head[i] # "/"
        THEN rstrip_slash(head) ELSE head

\* os.path.basename(p)
os_path_basename(p) == SubSeq(p, LastSlash(p) + 1, Len(p))

\* commons.get_hash: a deterministic digest, taken to be free of collisions
get_hash(s) == <<"md5:">> \o s

\* commons.http_methods
http_methods == {"GET", "POST", "PUT", "DELETE", "PATCH", "HEAD", "OPTIONS", "ANY"}

-----------------------------------------------------------------------------
(* Insertion-ordered dictionaries: a sequence of [key, value] pairs *)

DictKeys(d) == [i \in 1..Len(d) |-> d[i].key]

DictHas(d, k) == \E i \in 1..Len(d) : d[i].key = k

DictGet(d, k) == d[CHOOSE i \in 1..Len(d) : d[i].key = k].value

\* d[k] = v
DictSet(d, k, v) ==
    IF DictHas(d, k)
    THEN [i \in 1..Len(d) |-> IF d[i].key = k THEN [key |-> k, value |-> v] ELSE d[i]]
    ELSE Append(d, [key |-> k, value |-> v])

Range(s) == {s[i] : i \in 1..Len(s)}

-----------------------------------------------------------------------------
(* Inputs: the configuration handed to the constructor and the source tree *)

SegNames == {"users", "{id}"}
VerbNames == {"GET", "OPTIONS"}
FileName == "index.mjs"

\* where the project lives: relative or absolute, one or more components
Roots == {Str("src"), <<"work", "/", "src">>, <<"/", "srv">>}
Deployers == {"alice", "bob"}
Stages == {"dev", "prod"}

\* int(time.time()) and int(os.path.getmtime(...)) as the text an f-string makes of them
Timestamp == "1730419200"
Mtime == "1700000000"

\* __init__ for a configuration that passes every check: the keys of self.config
builder_init(path, deployer, stage) ==
    LET path_sources == os_path_join(path, Str("API"))
    IN  [path               |-> path,
         path_sources       |-> path_sources,
         path_temporal      |-> os_path_join(os_path_dirname(path),
                                             <<".">> \o os_path_basename(path_sources)),
         path_documentation |-> os_path_join(os_path_dirname(path), Str("docs")),
         name               |-> Str("MyAPI"),
         deployer           |-> Str(deployer),
         provider           |-> Str("aws"),
         version            |-> Str("1.0"),
         description        |-> Str("demo"),
         title              |-> Str("My API"),
         timestamp          |-> Str(Timestamp),
         aws_profile        |-> Str("default"),
         aws_region         |-> Str("us-east-1"),
         aws_bucket         |-> Str("bucket"),
         aws_stage          |-> Str(stage),
         aws_stack          |-> Str("stack"),
         aws_stack_file     |-> get_hash(<<deployer, "/", "stack">>)]

\* a Python value: a string (its text) or an integer (its decimal text)
PyStr(s) == [type |-> "str", text |-> s]
PyInt(t) == [type |-> "int", text |-> Str(t)]
PyMissing == [type |-> "missing", text |-> <<>>]

\* a dictionary argument and one that is no dictionary
PyDict(items) == [type |-> "dict", items |-> items]
PyList == [type |-> "list", items |-> [k \in {} |-> PyMissing]]

\* bool(v)
truthy(v) == IF v.type = "str" THEN v.text # <<>> ELSE v.text # Str("0")

\* s.strip(): a blank is the token " "
RECURSIVE lstrip(_)
lstrip(s) == IF s # <<>> /\ Head(s) = " " THEN lstrip(Tail(s)) ELSE s

RECURSIVE rstrip(_)
rstrip(s) ==
    IF s # <<>> /\ s[Len(s)] = " " THEN rstrip(SubSeq(s, 1, Len(s) - 1)) ELSE s

strip(s) == rstrip(lstrip(s))

\* os.path.exists and os.listdir at construction time
ExistingPaths == Roots \cup {Str("bare")}
PathsWithAPI == Roots

RequiredKeys ==
    {"path", "name", "deployer", "provider", "aws_profile", "aws_region",
     "aws_bucket", "aws_stage", "aws_stack"}
OptionalKeys == {"version", "description", "title"}

\* a plausible slip: the value is not stripped, so a blank string passes
not_nonempty_string_unstripped(c, k) ==
    \/ k \notin DOMAIN c
    \/ ~ truthy(c[k])
    \/ c[k].type # "str"

\* not config.get(k) or not isinstance(config[k], str) or not config[k].strip()
not_nonempty_string(c, k) ==
    \/ k \notin DOMAIN c
    \/ ~ truthy(c[k])
    \/ c[k].type # "str"
    \/ strip(c[k].text) = <<>>

\* `if config.get(k) and not isinstance(config[k], str): raise ...` followed
\* by `self.config[k] = config[k]`
optional_error(c, k) ==
    IF k \in DOMAIN c /\ truthy(c[k]) /\ c[k].type # "str"
    THEN "Config must have a non empty string for " \o k
    ELSE IF k \notin DOMAIN c THEN "KeyError: " \o k
    ELSE ""

\* the checks under `if self.config["provider"] == "aws"`, in their order
RECURSIVE aws_error(_, _)
aws_error(c, keys) ==
    IF keys = <<>> THEN ""
    ELSE IF not_nonempty_string(c, Head(keys))
         THEN "Config must be a non empty string parameter " \o Head(keys)
         ELSE aws_error(c, Tail(keys))

\* the exception __init__ raises for the argument uc, "" when it returns
init_error(uc) ==
    IF uc.type # "dict" THEN "Config must be a dictionary"
    ELSE LET c == uc.items
         IN  IF not_nonempty_string(c, "path") \/ c["path"].text \notin ExistingPaths
             THEN "Config must be a non empty string that corresponds to an existing path"
             ELSE IF c["path"].text \notin PathsWithAPI
             THEN "The path must contain a folder named API"
             ELSE IF not_nonempty_string(c, "name")
             THEN "Config must be a non empty string parameter name"
             ELSE IF not_nonempty_string(c, "deployer")
             THEN "Config must have a non empty string parameter named deployer"
             ELSE IF not_nonempty_string(c, "provider")
             THEN "Config must have a non empty string parameter named provider"
             ELSE IF optional_error(c, "version") # "" THEN optional_error(c, "version")
             ELSE IF optional_error(c, "description") # ""
             THEN optional_error(c, "description")
             ELSE IF optional_error(c, "title") # "" THEN optional_error(c, "title")
             ELSE IF c["provider"].text = Str("aws")
             THEN aws_error(c, <<"aws_profile", "aws_region", "aws_bucket",
                                 "aws_stage", "aws_stack">>)
             ELSE "Invalid provider"

\* self.config when __init__ returns
init_config(c) ==
    LET path == c["path"].text
        path_sources == os_path_join(path, Str("API"))
    IN  [path               |-> path,
         path_sources       |-> path_sources,
         path_temporal      |-> os_path_join(os_path_dirname(path),
                                             <<".">> \o os_path_basename(path_sources)),
         path_documentation |-> os_path_join(os_path_dirname(path), Str("docs")),
         name               |-> c["name"].text,
         deployer           |-> c["deployer"].text,
         provider           |-> c["provider"].text,
         version            |-> c["version"].text,
         description        |-> c["description"].text,
         title              |-> c["title"].text,
         timestamp          |-> Str(Timestamp),
         aws_profile        |-> c["aws_profile"].text,
         aws_region         |-> c["aws_region"].text,
         aws_bucket         |-> c["aws_bucket"].text,
         aws_stage          |-> c["aws_stage"].text,
         aws_stack          |-> c["aws_stack"].text,
         aws_stack_file     |-> get_hash(c["deployer"].text \o <<"/">>
                                             \o c["aws_stack"].text)]

\* the dictionary builder_init takes its values from
valid_items(path, deployer, stage) ==
    [k \in RequiredKeys \cup OptionalKeys |->
        PyStr(CASE k = "path"        -> path
                [] k = "name"        -> Str("MyAPI")
                [] k = "deployer"    -> Str(deployer)
                [] k = "provider"    -> Str("aws")
                [] k = "version"     -> Str("1.0")
                [] k = "description" -> Str("demo")
                [] k = "title"       -> Str("My API")
                [] k = "aws_profile" -> Str("default")
                [] k = "aws_region"  -> Str("us-east-1")
                [] k = "aws_bucket"  -> Str("bucket")
                [] k = "aws_stage"   -> Str(stage)
                [] k = "aws_stack"   -> Str("stack"))]

\* what a required key may hold instead of a non-empty string
BadValues(k) ==
    {PyMissing, PyInt("5"), PyStr(<<>>), PyStr(Str(" "))}
        \cup (IF k = "provider" THEN {PyStr(Str("gcp"))} ELSE {})
        \cup (IF k = "path" THEN {PyStr(Str("nowhere")), PyStr(Str("bare"))} ELSE {})

\* what an optional key may hold
OptionalValues(k) == {PyMissing, PyInt("5"), valid_items(Str("src"), "alice", "dev")[k]}

\* the dictionary with the required keys of `bad` replaced and the optional
\* keys as `opt` has them; a key that holds PyMissing is absent
make_items(bad, opt) ==
    LET full == [k \in RequiredKeys \cup OptionalKeys |->
                    IF k \in DOMAIN bad THEN bad[k]
                    ELSE IF k \in OptionalKeys THEN opt[k]
                    ELSE valid_items(Str("src"), "alice", "dev")[k]]
    IN  [k \in {x \in DOMAIN full : full[x] # PyMissing} |-> full[k]]

\* the configuration of src/tests/test_000.py
TestConfig ==
    PyDict([k \in {"name", "version"} |->
               IF k = "name" THEN PyStr(Str("MyAPI")) ELSE PyStr(Str("1.0"))])

\* the arguments handed to builder(): dictionaries with at most MaxBadFields
\* required keys that are no non-empty string, the test's, and a list
UserConfigs ==
    UNION {
        UNION {{PyDict(make_items(bad, opt)) :
                    opt \in {o \in [OptionalKeys -> UNION {OptionalValues(k) : k \in OptionalKeys}] :
                                 \A k \in OptionalKeys : o[k] \in OptionalValues(k)}} :
               bad \in {b \in [B -> UNION {BadValues(k) : k \in B}] :
                           \A k \in B : b[k] \in BadValues(k)}} :
        B \in {S \in SUBSET RequiredKeys : Cardinality(S) <= MaxBadFields}}
      \cup {TestConfig, PyList}

\* the chains of path segments between API and a verb directory: no segment
\* is named twice on a chain
SegSeqs ==
    UNION {{s \in [1..n -> SegNames] : \A i, j \in 1..n : s[i] = s[j] => i = j} :
           n \in 0..Cardinality(SegNames)}

\* a verb directory below a directory that is itself named like a verb
VerbNamedDirs == {<<"ANY", "GET">>}

\* directories a source tree is spanned by: verb directories and plain ones
PickableDirs ==
    {s \o <<v>> : s \in SegSeqs, v \in VerbNames} \cup (SegSeqs \ {<<>>})
        \cup VerbNamedDirs

PrefixClosure(S) == UNION {{SubSeq(p, 1, n) : n \in 1..Len(p)} : p \in S}

\* the files of a tree: none, or index.mjs in one of its directories
FileSets(dirs) == {{}} \cup {{Append(d, FileName)} : d \in dirs \cup {<<>>}}

Trees ==
    UNION {
        {[dirs |-> PrefixClosure(S), files |-> F] : F \in FileSets(PrefixClosure(S))} :
        S \in {T \in SUBSET PickableDirs : Cardinality(T) <= MaxEndpoints}}

\* two listing orders of the file system, one the reverse of the other
ListingOrders ==
    {<<"ANY", "GET", "OPTIONS", "users", "{id}", FileName>>,
     <<FileName, "{id}", "users", "OPTIONS", "GET", "ANY">>}

-----------------------------------------------------------------------------
(* Nested dictionaries keyed by path: p |-> "dict" for a directory,        *)
(* p |-> "None" for a file; the empty path is the dictionary itself        *)

\* the keys of the dictionary at rel, in insertion order
NestedKeys(d, rel) ==
    SelectSeq(order, LAMBDA n : Append(rel, n) \in DOMAIN d)

\* _get_filetree
get_filetree(t) ==
    [p \in t.dirs \cup t.files |-> IF p \in t.files THEN "None" ELSE "dict"]

\* a plausible slip: the file entries are left in the dictionary
remove_null_keys_none(d) == d

\* _get_structure.remove_null_keys
remove_null_keys(d) ==
    [p \in {q \in DOMAIN d : d[q] # "None"} |-> d[p]]

\* _get_structure.check_http_methods: TRUE when it returns, FALSE when it raises
check_http_methods(d) ==
    \A p \in DOMAIN d :
        (~ \E q \in DOMAIN d : Len(q) = Len(p) + 1 /\ SubSeq(q, 1, Len(p)) = p)
            => p[Len(p)] \in http_methods

\* the descriptor _get_methods.get_methods stores for one verb token
method_hash(cfg, path, token) ==
    get_hash(cfg.deployer \o <<"-">> \o path \o <<"/", token>>)

method_resource(path_sources) == join(SliceToLast(split(path_sources), 2))

method_descriptor(cfg, path, token) ==
    LET h == method_hash(cfg, path, token)
        path_sources == os_path_join(path, Str(token))
    IN  [hash          |-> h,
         method        |-> token,
         zip           |-> <<Mtime, "-">> \o h \o <<".zip">>,
         json          |-> <<Mtime, "-">> \o h \o <<".json">>,
         path_sources  |-> path_sources,
         resource      |-> method_resource(path_sources),
         path_temporal |-> os_path_join(cfg.path_temporal, h)]

\* _get_methods.get_methods(d, path): tokens are the keys of d still to visit,
\* rel is where d sits in the structure, acc is self.building["methods"]
RECURSIVE get_methods(_, _, _, _, _, _)
get_methods(cfg, s, tokens, rel, path, acc) ==
    IF tokens = <<>> THEN acc
    ELSE LET token == Head(tokens)
             path_sources == os_path_join(path, Str(token))
         IN  IF token \in http_methods
             THEN get_methods(cfg, s, Tail(tokens), rel, path,
                      DictSet(acc, method_hash(cfg, path, token),
                              method_descriptor(cfg, path, token)))
             ELSE get_methods(cfg, s, Tail(tokens), rel, path,
                      get_methods(cfg, s, NestedKeys(s, Append(rel, token)),
                                  Append(rel, token), path_sources, acc))

-----------------------------------------------------------------------------
(* _aws_build_apigateway: the aggregate template, a dictionary from logical *)
(* resource names to nodes                                                  *)

RootResourceId == [kind |-> "Fn::GetAtt", target |-> Str("apiGateway.RootResourceId")]
Ref(name) == [kind |-> "Ref", target |-> name]

DeploymentName(cfg) == <<"apiGatewayDeployment">> \o cfg.timestamp
ResourceName(resource) == get_hash(resource) \o <<"Resource">>
CorsName(resource) == get_hash(resource) \o <<"ResourceOPTIONS">>
StackName(m) == m.hash \o <<"Stack">>

\* the depends list
dependence(ms) ==
    <<Str("apiGateway")>> \o [i \in 1..Len(ms) |-> StackName(ms[i].value)]

\* the template literal: the API, its deployment and its stage
template_literal(cfg, ms) ==
    (Str("apiGateway") :>
        [Type |-> "AWS::ApiGateway::RestApi", Name |-> cfg.name])
    @@ (DeploymentName(cfg) :>
        [Type |-> "AWS::ApiGateway::Deployment",
         RestApiId |-> Ref(Str("apiGateway")),
         DependsOn |-> dependence(ms)])
    @@ (Str("apiGatewayStage") :>
        [Type |-> "AWS::ApiGateway::Stage",
         RestApiId |-> Ref(Str("apiGateway")),
         DeploymentId |-> Ref(DeploymentName(cfg)),
         StageName |-> cfg.aws_stage,
         DependsOn |-> <<DeploymentName(cfg)>>])

\* resources_methods: resource path -> the verbs defined on it
RECURSIVE resources_methods_from(_, _)
resources_methods_from(ms, acc) ==
    IF ms = <<>> THEN acc
    ELSE LET m == Head(ms).value
             had == IF DictHas(acc, m.resource) THEN DictGet(acc, m.resource) ELSE <<>>
         IN  resources_methods_from(Tail(ms),
                 DictSet(acc, m.resource, Append(had, m.method)))

resources_methods(ms) == resources_methods_from(ms, <<>>)

\* the while loop that walks a resource path up to the root
RECURSIVE walk_up(_, _)
walk_up(resource, all) ==
    IF resource = <<>> THEN all
    ELSE walk_up(join(SliceToLast(split(resource), 0)),
                 IF resource \in Range(all) THEN all ELSE Append(all, resource))

RECURSIVE resources_all_from(_, _)
resources_all_from(keys, all) ==
    IF keys = <<>> THEN all
    ELSE resources_all_from(Tail(keys), walk_up(Head(keys), all))

\* a plausible slip: only the paths that carry a method, no walk to the root
resources_all_leaves(rm) == DictKeys(rm)

\* resources_all: every resource path the API needs
resources_all(rm) == resources_all_from(DictKeys(rm), <<>>)

resource_node(resource) ==
    [Type     |-> "AWS::ApiGateway::Resource",
     ParentId |-> IF Len(split(resource)) > 1
                  THEN Ref(ResourceName(join(SliceToLast(split(resource), 0))))
                  ELSE RootResourceId,
     PathPart |-> split(resource)[Len(split(resource))],
     RestApiId |-> Ref(Str("apiGateway"))]

RECURSIVE add_resources(_, _)
add_resources(t, all) ==
    IF all = <<>> THEN t
    ELSE add_resources((ResourceName(Head(all)) :> resource_node(Head(all))) @@ t,
                       Tail(all))

CorsHeaders ==
    {"Access-Control-Allow-Headers", "Access-Control-Allow-Methods",
     "Access-Control-Allow-Origin"}

cors_node(resource) ==
    [Type        |-> "AWS::ApiGateway::Method",
     RestApiId   |-> Ref(Str("apiGateway")),
     ResourceId  |-> IF resource # <<>> THEN Ref(ResourceName(resource))
                     ELSE RootResourceId,
     HttpMethod  |-> "OPTIONS",
     Integration |-> "MOCK",
     Headers     |-> CorsHeaders]

\* a plausible slip: the test that protects explicit OPTIONS is left out
cors_resources_unguarded(rm) == DictKeys(rm)

\* a plausible slip: the test that protects explicit OPTIONS is inverted
cors_resources_inverted(rm) ==
    SelectSeq(DictKeys(rm), LAMBDA r : "OPTIONS" \in Range(DictGet(rm, r)))

\* the resources the CORS loop does not skip
cors_resources(rm) ==
    SelectSeq(DictKeys(rm), LAMBDA r : "OPTIONS" \notin Range(DictGet(rm, r)))

RECURSIVE add_cors(_, _)
add_cors(t, rs) ==
    IF rs = <<>> THEN t
    ELSE add_cors((CorsName(Head(rs)) :> cors_node(Head(rs))) @@ t, Tail(rs))

stack_node(cfg, m) ==
    [Type          |-> "AWS::CloudFormation::Stack",
     TemplateURL   |-> <<"https://">> \o cfg.aws_bucket
                          \o <<".s3.amazonaws.com", "/", "API", "/">> \o m.json,
     parGateway    |-> Ref(Str("apiGateway")),
     parResourceId |-> IF m.resource # <<>> THEN Ref(ResourceName(m.resource))
                       ELSE RootResourceId]

RECURSIVE add_stacks(_, _, _)
add_stacks(cfg, t, ms) ==
    IF ms = <<>> THEN t
    ELSE add_stacks(cfg,
                    (StackName(Head(ms).value) :> stack_node(cfg, Head(ms).value)) @@ t,
                    Tail(ms))

aws_build_apigateway(cfg, ms) ==
    LET rm == resources_methods(ms)
        t0 == template_literal(cfg, ms)
        t1 == add_resources(t0, resources_all(rm))
        t2 == add_cors(t1, cors_resources(rm))
    IN  add_stacks(cfg, t2, ms)

-----------------------------------------------------------------------------
(* _clean_mjs: a line is the sequence of its blank-separated tokens, as     *)
(* line.strip().split(" ") yields them                                      *)

IfLine(k, v) == <<"////", "IF", k, v>>
EndifLine == <<"////", "ENDIF">>

\* the lines files are made of: conditions on two keys of the configuration
\* and on one that is none ("stage"), an IF that lacks its value, ENDIF, text
Lines ==
    {IfLine("aws_stage", "prod"), IfLine("name", "MyAPI"), IfLine("stage", "prod"),
     <<"////", "IF", "aws_stage">>, EndifLine, Str("a"), Str("b")}

Files == UNION {[1..n -> Lines] : n \in 0..MaxLines}

\* line_strip.startswith("//// IF"); IF is the only token of Lines it matches
IsIf(line) == Len(line) >= 2 /\ line[1] = "////" /\ line[2] = "IF"

\* line_strip.startswith("//// ENDIF")
IsEndif(line) == Len(line) >= 2 /\ line[1] = "////" /\ line[2] = "ENDIF"

\* a plausible slip: the test for a rule already in use is left out
directive_if_unchecked(rs, line) ==
    IF Len(line) < 4 THEN [error |-> "IndexError", rules |-> rs]
    ELSE [error |-> "", rules |-> Append(rs, <<line[3], "==", line[4]>>)]

\* the IF branch: the rule is read from the line and pushed
directive_if(rs, line) ==
    IF Len(line) < 4 THEN [error |-> "IndexError", rules |-> rs]
    ELSE LET rule == <<line[3], "==", line[4]>>
         IN  IF rule \in Range(rs)
             THEN [error |-> "Rule is already in use", rules |-> rs]
             ELSE [error |-> "", rules |-> Append(rs, rule)]

\* a plausible slip: an ENDIF that closes nothing is ignored
directive_endif_lenient(rs) ==
    IF Len(rs) = 0 THEN [error |-> "", rules |-> rs]
    ELSE [error |-> "", rules |-> SubSeq(rs, 1, Len(rs) - 1)]

\* the ENDIF branch: the last rule is popped
directive_endif(rs) ==
    IF Len(rs) = 0 THEN [error |-> "No rule to close", rules |-> rs]
    ELSE [error |-> "", rules |-> SubSeq(rs, 1, Len(rs) - 1)]

\* a plausible slip: only the innermost rule decides
write_decision_innermost(cfg, rs) ==
    IF rs = <<>> THEN "write"
    ELSE IF rs[Len(rs)][1] \notin DOMAIN cfg THEN "KeyError"
    ELSE IF cfg[rs[Len(rs)][1]] = Str(rs[Len(rs)][3]) THEN "write"
    ELSE "skip"

\* the loop over rules: "write", "skip", or "KeyError" when self.config has
\* no such key
RECURSIVE write_decision(_, _)
write_decision(cfg, rs) ==
    IF rs = <<>> THEN "write"
    ELSE LET rule == Head(rs)
         IN  IF rule[2] # "==" THEN "skip"
             ELSE IF rule[1] \notin DOMAIN cfg THEN "KeyError"
             ELSE IF cfg[rule[1]] = Str(rule[3]) THEN write_decision(cfg, Tail(rs))
             ELSE "skip"

\* a plausible slip: an ENDIF line that closes a rule is copied to the output
clean_line_keeps_endif(cfg, rs, fc, line) ==
    IF IsIf(line)
    THEN [error      |-> directive_if(rs, line).error,
          rules      |-> directive_if(rs, line).rules,
          file_clean |-> fc]
    ELSE IF IsEndif(line)
    THEN [error      |-> directive_endif(rs).error,
          rules      |-> directive_endif(rs).rules,
          file_clean |-> Append(fc, line)]
    ELSE [error      |-> IF write_decision(cfg, rs) = "KeyError" THEN "KeyError" ELSE "",
          rules      |-> rs,
          file_clean |-> IF write_decision(cfg, rs) = "write" THEN Append(fc, line)
                         ELSE fc]

\* the body of `for line in f`: the exception raised ("" when none), the
\* rules and file_clean after the line
clean_line(cfg, rs, fc, line) ==
    IF IsIf(line)
    THEN [error      |-> directive_if(rs, line).error,
          rules      |-> directive_if(rs, line).rules,
          file_clean |-> fc]
    ELSE IF IsEndif(line)
    THEN [error      |-> directive_endif(rs).error,
          rules      |-> directive_endif(rs).rules,
          file_clean |-> fc]
    ELSE [error      |-> IF write_decision(cfg, rs) = "KeyError" THEN "KeyError" ELSE "",
          rules      |-> rs,
          file_clean |-> IF write_decision(cfg, rs) = "write" THEN Append(fc, line)
                         ELSE fc]

-----------------------------------------------------------------------------
(* The packaging steps of build(): files are lines, as _clean_mjs reads     *)
(* them; an archive or a template file is the lines that tell its content   *)

\* p lies below the directory dir
Under(dir, p) ==
    /\ Len(p) > Len(dir) + 1
    /\ SubSeq(p, 1, Len(dir)) = dir
    /\ p[Len(dir) + 1] = "/"

\* p as seen from dir
Relative(dir, p) == SubSeq(p, Len(dir) + 2, Len(p))

\* the members of a finite set, one after the other
RECURSIVE SetToSeq(_)
SetToSeq(S) ==
    IF S = {} THEN <<>>
    ELSE LET x == CHOOSE y \in S : TRUE IN <<x>> \o SetToSeq(S \ {x})

\* the files that are left when rm -rf dir has run
rm_rf(files, dir) ==
    [p \in {q \in DOMAIN files : q # dir /\ ~ Under(dir, q)} |-> files[p]]

\* where the files of a method are staged
staging_dir_sources(m) == m.path_sources

staging_dir(m) == m.path_temporal

\* _make_temporal_tree: the disk when it returns or raises. rm -rf is run
\* when path_temporal exists; `removed` tells whether it did its work. When
\* it did not, os.makedirs finds the directory and raises.
make_temporal_tree(cfg, ms, disk, removed) ==
    IF cfg.path_temporal \in disk.dirs /\ ~ removed
    THEN [files |-> disk.files,
          dirs  |-> disk.dirs,
          exits |-> disk.exits \cup {[cmd |-> "rm", method |-> cfg.path_temporal]},
          error |-> "FileExistsError"]
    ELSE [files |-> rm_rf(disk.files, cfg.path_temporal),
          dirs  |-> {cfg.path_temporal}
                       \cup {staging_dir(ms[i].value) : i \in 1..Len(ms)},
          exits |-> disk.exits,
          error |-> ""]

\* cp -r src/* dst: what the shell's * matches is every entry of src; with
\* no entry cp fails and copies nothing
cp_r(disk, alldirs, src, dst, who) ==
    LET fmatch == {p \in DOMAIN disk.files : Under(src, p)}
        dmatch == {d \in alldirs : Under(src, d)}
        target(p) == os_path_join(dst, Relative(src, p))
    IN  IF fmatch = {} /\ dmatch = {}
        THEN [disk EXCEPT !.exits = @ \cup {[cmd |-> "cp", method |-> who]}]
        ELSE [files |-> [q \in DOMAIN disk.files \cup {target(p) : p \in fmatch} |->
                            IF \E p \in fmatch : target(p) = q
                            THEN disk.files[CHOOSE p \in fmatch : target(p) = q]
                            ELSE disk.files[q]],
              dirs  |-> disk.dirs \cup {target(d) : d \in dmatch},
              exits |-> disk.exits]

\* _copy_temporal_files: the loop over the methods
RECURSIVE copy_temporal_files(_, _, _)
copy_temporal_files(ms, alldirs, disk) ==
    IF ms = <<>> THEN disk
    ELSE copy_temporal_files(Tail(ms), alldirs,
             cp_r(disk, alldirs, Head(ms).value.path_sources,
                  staging_dir(Head(ms).value), Head(ms).key))

\* file.endswith(".mjs"): a file name is one token
endswith_mjs(p) == p[Len(p)] \in {FileName}

\* _clean_mjs on a whole file: the exception raised ("" when none) and the
\* lines written
RECURSIVE clean_from(_, _, _, _)
clean_from(cfg, lines, rs, fc) ==
    IF lines = <<>> THEN [error |-> "", file_clean |-> fc]
    ELSE LET step == clean_line(cfg, rs, fc, Head(lines))
         IN  IF step.error # "" THEN [error |-> step.error, file_clean |-> fc]
             ELSE clean_from(cfg, Tail(lines), step.rules, step.file_clean)

clean_mjs(cfg, lines) == clean_from(cfg, lines, <<>>, <<>>)

\* the loop over the files os.walk finds: the files after it and the
\* exception that ended it
RECURSIVE clean_files(_, _, _)
clean_files(cfg, paths, files) ==
    IF paths = <<>> THEN [files |-> files, error |-> ""]
    ELSE LET out == clean_mjs(cfg, files[Head(paths)])
         IN  IF out.error # "" THEN [files |-> files, error |-> out.error]
             ELSE clean_files(cfg, Tail(paths),
                      [files EXCEPT ![Head(paths)] = out.file_clean])

\* _prepare_temporal_files: the loop over the methods
RECURSIVE prepare_temporal_files(_, _, _)
prepare_temporal_files(cfg, ms, files) ==
    IF ms = <<>> THEN [files |-> files, error |-> ""]
    ELSE LET walk == SetToSeq({p \in DOMAIN files :
                                  /\ Under(staging_dir(Head(ms).value), p)
                                  /\ endswith_mjs(p)})
             out == clean_files(cfg, walk, files)
         IN  IF out.error # "" THEN out
             ELSE prepare_temporal_files(cfg, Tail(ms), out.files)

\* the lines that stand for an archive of the given members
RECURSIVE archive(_, _, _)
archive(files, dir, members) ==
    IF members = <<>> THEN <<>>
    ELSE <<<<"member">> \o Relative(dir, Head(members))>>
             \o files[Head(members)] \o archive(files, dir, Tail(members))

\* cd dir && zip -r name *: with no entry in dir zip has nothing to do,
\* fails and writes no archive
zip_r(disk, dir, name, who) ==
    LET fmatch == {p \in DOMAIN disk.files : Under(dir, p)}
        dmatch == {d \in disk.dirs : Under(dir, d)}
    IN  IF fmatch = {} /\ dmatch = {}
        THEN [disk EXCEPT !.exits = @ \cup {[cmd |-> "zip", method |-> who]}]
        ELSE [disk EXCEPT !.files =
                 (os_path_join(dir, name) :> (<<Str("PK")>>
                     \o archive(disk.files, dir, SetToSeq(fmatch)))) @@ @]

\* _zip_files: the loop over the methods
RECURSIVE zip_files(_, _)
zip_files(ms, disk) ==
    IF ms = <<>> THEN disk
    ELSE zip_files(Tail(ms),
             zip_r(disk, staging_dir(Head(ms).value), Head(ms).value.zip,
                   Head(ms).key))

\* the file _aws_build_methods writes for a method: where and what
method_template_path(m) == m.path_temporal \o <<"/">> \o m.json

method_template(cfg, m) ==
    <<<<"Method", m.method>> \o m.hash, <<"S3Key", "API", "/">> \o m.zip>>

\* _aws_build_methods: the loop over the methods
RECURSIVE aws_build_methods(_, _, _)
aws_build_methods(cfg, ms, files) ==
    IF ms = <<>> THEN files
    ELSE aws_build_methods(cfg, Tail(ms),
             (method_template_path(Head(ms).value)
                 :> method_template(cfg, Head(ms).value)) @@ files)

\* the file _aws_build_apigateway dumps the aggregate template to
aggregate_name(cfg) == cfg.timestamp \o <<"-">> \o cfg.aws_stack_file \o <<".json">>

aggregate_path(cfg) == cfg.path_temporal \o <<"/">> \o aggregate_name(cfg)

aggregate_file(cfg, ms) ==
    <<Str("Resources")>> \o [i \in 1..Len(ms) |-> StackName(ms[i].value)]

-----------------------------------------------------------------------------
(* build(): one action per step of the pipeline *)

NoDict == <<>>

\* the names a `from tlaloc_api_builder.builder import ...` can bind
ModuleNames == {"os", "json", "copy", "time", "boto3", "commons", "swagger_ui_path",
                "builder"}

NoResult == [status |-> "", config |-> PyList]

TestIdle ==
    /\ imported = ""
    /\ result = NoResult

\* a path of names below API as a string
RelPath(p) == join([i \in 1..Len(p) |-> Str(p[i])])

\* a source file without directives
PlainFile == <<Str("a"), Str("b")>>

\* where a file of the source tree lies on disk
SourcePath(path, f) == os_path_join(os_path_join(path, Str("API")), RelPath(f))

\* deploy() is not running
DeployEnded == {"idle", "returned", "raised"}

\* nothing staged, nothing deployed
DeployIdle ==
    /\ fsdirs = {}
    /\ exits = {}
    /\ deployed = FALSE
    /\ uploaded = <<>>
    /\ dpc = "idle"
    /\ derror = ""
    /\ calls = 0
    /\ edited = FALSE

Construct(path, deployer, stage) ==
    /\ userConfig' = PyDict(valid_items(path, deployer, stage))
    /\ config' = builder_init(path, deployer, stage)
    /\ built' = FALSE
    /\ filetree' = NoDict
    /\ structure' = NoDict
    /\ methods' = <<>>
    /\ template' = NoDict
    /\ pc' = "constructed"
    /\ error' = ""

CleanIdle ==
    /\ original = <<>>
    /\ staged = <<>>
    /\ lineno = 0
    /\ rules = <<>>
    /\ file_clean = <<>>
    /\ cpc = "idle"
    /\ cerror = ""
    /\ runs = 0
    /\ previous = <<>>

Init ==
    /\ \E p \in Roots, d \in Deployers :
          /\ userConfig = PyDict(valid_items(p, d, "dev"))
          /\ config = builder_init(p, d, "dev")
    /\ TestIdle
    /\ DeployIdle
    /\ built = FALSE
    /\ tree \in Trees
    /\ order \in ListingOrders
    /\ fs = [p \in {SourcePath(config.path, f) : f \in tree.files} |-> PlainFile]
    /\ filetree = NoDict
    /\ structure = NoDict
    /\ methods = <<>>
    /\ template = NoDict
    /\ pc = "constructed"
    /\ error = ""
    /\ identities = {}
    /\ builds = 1
    /\ CleanIdle

\* build() up to and including self._get_filetree()
GetFiletree ==
    /\ pc = "constructed"
    /\ dpc \in DeployEnded
    /\ filetree' = get_filetree(tree)
    /\ structure' = NoDict
    /\ methods' = <<>>
    /\ template' = NoDict
    /\ pc' = "filetree"
    /\ UNCHANGED <<config, built, tree, order, error, identities, builds>>
    /\ UNCHANGED cleanVars
    /\ UNCHANGED otherVars

\* self._get_structure()
GetStructure ==
    /\ pc = "filetree"
    /\ LET filetree_copy == remove_null_keys(filetree)
       IN  IF check_http_methods(filetree_copy)
           THEN /\ structure' = filetree_copy
                /\ pc' = "structure"
                /\ error' = error
           ELSE /\ structure' = structure
                /\ pc' = "raised"
                /\ error' = "Invalid HTTP method"
    /\ UNCHANGED <<config, built, tree, order, filetree, methods, template,
                   identities, builds>>
    /\ UNCHANGED cleanVars
    /\ UNCHANGED otherVars

\* the directories between API and the verb directory a descriptor was made for
LogicalPath(cfg, s, m) ==
    LET p == CHOOSE q \in DOMAIN s :
                 m.path_sources = os_path_join(cfg.path_sources, RelPath(q))
    IN  RelPath(SubSeq(p, 1, Len(p) - 1))

\* self._get_methods()
GetMethods ==
    /\ pc = "structure"
    /\ methods' = get_methods(config, structure, NestedKeys(structure, <<>>),
                              <<>>, config.path_sources, <<>>)
    /\ identities' = identities \cup
          {[deployer |-> config.deployer,
            logical  |-> LogicalPath(config, structure, methods'[i].value),
            resource |-> methods'[i].value.resource,
            method   |-> methods'[i].value.method,
            hash     |-> methods'[i].value.hash] : i \in 1..Len(methods')}
    /\ pc' = "methods"
    /\ UNCHANGED <<config, built, tree, order, filetree, structure, template,
                   error, builds>>
    /\ UNCHANGED cleanVars
    /\ UNCHANGED otherVars

\* the directories of the source tree, as paths
SourceDirs == {os_path_join(config.path_sources, RelPath(d)) : d \in tree.dirs}

Disk == [files |-> fs, dirs |-> fsdirs, exits |-> exits]

\* self._make_temporal_tree()
MakeTemporalTree ==
    /\ pc = "methods"
    /\ \E removed \in BOOLEAN :
          /\ config.path_temporal \notin fsdirs => removed
          /\ LET disk == make_temporal_tree(config, methods, Disk, removed)
             IN  /\ fs' = disk.files
                 /\ fsdirs' = disk.dirs
                 /\ exits' = disk.exits
                 /\ error' = disk.error
                 /\ pc' = IF disk.error = "" THEN "temporal" ELSE "raised"
    /\ UNCHANGED <<config, built, tree, order, filetree, structure, methods,
                   template, identities, builds>>
    /\ UNCHANGED <<cleanVars, callerVars, deployVars>>

\* self._copy_temporal_files()
CopyTemporalFiles ==
    /\ pc = "temporal"
    /\ LET disk == copy_temporal_files(methods, SourceDirs, Disk)
       IN  /\ fs' = disk.files
           /\ fsdirs' = disk.dirs
           /\ exits' = disk.exits
    /\ pc' = "copied"
    /\ UNCHANGED <<config, built, tree, order, filetree, structure, methods,
                   template, error, identities, builds>>
    /\ UNCHANGED <<cleanVars, callerVars, deployVars>>

\* self._prepare_temporal_files(): an exception of _clean_mjs ends build()
PrepareTemporalFiles ==
    /\ pc = "copied"
    /\ LET out == prepare_temporal_files(config, methods, fs)
       IN  /\ fs' = out.files
           /\ error' = out.error
           /\ pc' = IF out.error = "" THEN "prepared" ELSE "raised"
    /\ UNCHANGED <<config, built, tree, order, filetree, structure, methods,
                   template, identities, builds, fsdirs, exits>>
    /\ UNCHANGED <<cleanVars, callerVars, deployVars>>

\* self._zip_files()
ZipFiles ==
    /\ pc = "prepared"
    /\ LET disk == zip_files(methods, Disk)
       IN  /\ fs' = disk.files
           /\ exits' = disk.exits
    /\ pc' = "zipped"
    /\ UNCHANGED <<config, built, tree, order, filetree, structure, methods,
                   template, error, identities, builds, fsdirs>>
    /\ UNCHANGED <<cleanVars, callerVars, deployVars>>

\* self._aws_build_methods()
AwsBuildMethods ==
    /\ pc = "zipped"
    /\ fs' = aws_build_methods(config, methods, fs)
    /\ pc' = "aws_methods"
    /\ UNCHANGED <<config, built, tree, order, filetree, structure, methods,
                   template, error, identities, builds, fsdirs, exits>>
    /\ UNCHANGED <<cleanVars, callerVars, deployVars>>

\* self._aws_build_apigateway()
AwsBuildApigateway ==
    /\ pc = "aws_methods"
    /\ template' = aws_build_apigateway(config, methods)
    /\ fs' = (aggregate_path(config) :> aggregate_file(config, methods)) @@ fs
    /\ pc' = "apigateway"
    /\ UNCHANGED <<config, built, tree, order, filetree, structure, methods,
                   error, identities, builds, fsdirs, exits>>
    /\ UNCHANGED <<cleanVars, callerVars, deployVars>>

\* the end of build(): self.built = True
BuildReturn ==
    /\ pc = "apigateway"
    /\ built' = TRUE
    /\ pc' = "built"
    /\ UNCHANGED <<config, tree, order, filetree, structure, methods, template,
                   error, identities, builds>>
    /\ UNCHANGED cleanVars
    /\ UNCHANGED otherVars

Next ==
    \/ GetFiletree
    \/ GetStructure
    \/ GetMethods
    \/ MakeTemporalTree
    \/ CopyTemporalFiles
    \/ PrepareTemporalFiles
    \/ ZipFiles
    \/ AwsBuildMethods
    \/ AwsBuildApigateway
    \/ BuildReturn

Spec == Init /\ [][Next]_vars

\* builder(config): __init__ from its first line to its return or raise
BuilderInit ==
    /\ pc = "new"
    /\ built' = FALSE
    /\ deployed' = FALSE
    /\ IF init_error(userConfig) = ""
       THEN /\ config' = init_config(userConfig.items)
            /\ pc' = "constructed"
            /\ error' = ""
       ELSE /\ config' = config
            /\ pc' = "rejected"
            /\ error' = init_error(userConfig)
    /\ UNCHANGED <<tree, order, filetree, structure, methods, template, identities,
                   builds>>
    /\ UNCHANGED <<cleanVars, callerVars, packVars>>
    /\ UNCHANGED <<uploaded, dpc, derror, calls, edited>>

\* from tlaloc_api_builder.builder import api_builder
import_from(name) == IF name \in ModuleNames THEN name ELSE "ImportError"

\* src/tests/test_000.py: the import statement at the top of the module; the
\* test case below it runs only when the name was bound
ImportApiBuilder ==
    /\ pc = "new"
    /\ imported = ""
    /\ imported' = import_from("api_builder")
    /\ UNCHANGED <<userConfig, result>>
    /\ UNCHANGED <<buildVars, cleanVars, packVars, deployVars>>

\* the source trees a new builder is tried on
NewTrees == {t \in Trees : t.dirs \subseteq {<<"GET">>} /\ t.files = {}}

\* before builder(config) is called: any configuration of UserConfigs
InitNew ==
    /\ userConfig \in UserConfigs
    /\ TestIdle
    /\ fs = <<>>
    /\ DeployIdle
    /\ config = NoDict
    /\ built = FALSE
    /\ tree \in NewTrees
    /\ order \in {o \in ListingOrders : o[1] = "ANY"}
    /\ filetree = NoDict
    /\ structure = NoDict
    /\ methods = <<>>
    /\ template = NoDict
    /\ pc = "new"
    /\ error = ""
    /\ identities = {}
    /\ builds = 0
    /\ CleanIdle

NextNew ==
    \/ BuilderInit
    \/ ImportApiBuilder
    \/ Next

SpecNew == InitNew /\ [][NextNew]_vars

-----------------------------------------------------------------------------
(* deploy(), and build() called again on the same builder *)

\* "methods" in self.building: the key is set by _get_methods and lost when
\* build() starts again with self.building = {}
HasMethodsKey ==
    \/ pc \in {"methods", "temporal", "copied", "prepared", "zipped", "aws_methods",
                "apigateway", "built"}
    \/ pc = "raised" /\ error # "Invalid HTTP method"

\* a plausible slip: deploy() does not look at self.built
deploy_guard_absent(b) == ""

\* `if not self.built: raise ValueError(...)`
deploy_guard(b) == IF ~ b THEN "API must be built before deploying" ELSE ""

\* s3_client.upload_file(path, bucket, key): a file that is not there cannot
\* be uploaded
upload_file(up, files, path, key) ==
    IF path \notin DOMAIN files THEN [bucket |-> up.bucket, error |-> "FileNotFoundError"]
    ELSE [bucket |-> (key :> files[path]) @@ up.bucket, error |-> ""]

S3Key(name) == <<"API", "/">> \o name

\* the loop of _aws_upload over the methods: the archive, then the template
RECURSIVE upload_methods(_, _, _)
upload_methods(ms, files, up) ==
    IF ms = <<>> \/ up.error # "" THEN up
    ELSE LET m == Head(ms).value
             z == upload_file(up, files, os_path_join(m.path_temporal, m.zip), S3Key(m.zip))
             j == IF z.error # "" THEN z
                  ELSE upload_file(z, files, os_path_join(m.path_temporal, m.json),
                                   S3Key(m.json))
         IN  upload_methods(Tail(ms), files, j)

\* _aws_upload: the bucket when it returns or raises
aws_upload(cfg, ms, files, bucket) ==
    LET up == upload_methods(ms, files, [bucket |-> bucket, error |-> ""])
    IN  IF up.error # "" THEN up
        ELSE upload_file(up, files, aggregate_path(cfg), S3Key(aggregate_name(cfg)))

\* what AWS answers to a call: it is served or it fails
Answers == {"ok", "ClientError"}

\* deploy() up to the call of self._aws_deploy(wait)
DeployCall ==
    /\ pc \in {"constructed", "built", "raised"}
    /\ dpc \in DeployEnded
    /\ calls < MaxCalls
    /\ calls' = calls + 1
    /\ derror' = IF deploy_guard(built) # "" THEN deploy_guard(built)
                 ELSE IF config.provider # Str("aws") THEN "Invalid provider"
                 ELSE ""
    /\ dpc' = IF derror' # "" THEN "raised" ELSE "aws_deploy"
    /\ UNCHANGED <<deployed, uploaded, edited>>
    /\ UNCHANGED <<buildVars, cleanVars, callerVars, packVars>>

\* _aws_deploy: boto3.Session(...) and self._aws_upload()
AwsUpload ==
    /\ dpc = "aws_deploy"
    /\ \E answer \in Answers :
          LET up == IF answer # "ok" THEN [bucket |-> uploaded, error |-> answer]
                    ELSE IF ~ HasMethodsKey
                    THEN [bucket |-> uploaded, error |-> "KeyError: methods"]
                    ELSE aws_upload(config, methods, fs, uploaded)
          IN  /\ uploaded' = up.bucket
              /\ derror' = up.error
              /\ dpc' = IF up.error = "" THEN "uploaded" ELSE "raised"
    /\ UNCHANGED <<deployed, calls, edited>>
    /\ UNCHANGED <<buildVars, cleanVars, callerVars, packVars>>

\* _aws_deploy: commons.aws.cloudformation.deploy(self, "API", ...)
CloudformationDeploy ==
    /\ dpc = "uploaded"
    /\ \E answer \in Answers :
          /\ derror' = IF answer = "ok" THEN "" ELSE answer
          /\ dpc' = IF answer = "ok" THEN "submitted" ELSE "raised"
    /\ UNCHANGED <<deployed, uploaded, calls, edited>>
    /\ UNCHANGED <<buildVars, cleanVars, callerVars, packVars>>

\* _aws_deploy returns and deploy() sets self.deployed = True
DeployReturn ==
    /\ dpc = "submitted"
    /\ deployed' = TRUE
    /\ dpc' = "returned"
    /\ UNCHANGED <<uploaded, derror, calls, edited>>
    /\ UNCHANGED <<buildVars, cleanVars, callerVars, packVars>>

\* build() called again on a builder that has built or failed to: it starts
\* over with self.building = {} and leaves self.built as it is
BuildAgain ==
    /\ pc \in {"built", "raised"}
    /\ dpc \in DeployEnded
    /\ calls < MaxCalls
    /\ calls' = calls + 1
    /\ filetree' = get_filetree(tree)
    /\ structure' = NoDict
    /\ methods' = <<>>
    /\ template' = NoDict
    /\ pc' = "filetree"
    /\ error' = ""
    /\ exits' = {}
    /\ edited' = FALSE
    /\ UNCHANGED <<config, built, tree, order, identities, builds>>
    /\ UNCHANGED <<fs, fsdirs, deployed, uploaded, dpc, derror>>
    /\ UNCHANGED <<cleanVars, callerVars>>

\* the source files a project is tried with: plain text, a block kept for
\* the prod stage only, an ENDIF that closes nothing
SourceFiles ==
    {PlainFile,
     <<IfLine("aws_stage", "prod"), Str("a"), EndifLine, Str("b")>>,
     <<EndifLine>>}

\* the source trees a project is tried with, and what their files hold
DeployTrees ==
    {t \in Trees : /\ t.dirs \subseteq {<<"GET">>, <<"users">>}
                   /\ t.files \subseteq {<<"GET", FileName>>}}

Sources ==
    {[tree |-> t, lines |-> c] : t \in DeployTrees, c \in SourceFiles}

\* the files of a source on disk
source_files(path, src) ==
    [p \in {SourcePath(path, f) : f \in src.tree.files} |-> src.lines]

\* where the sources of the project lie
SourceRoot == os_path_join(userConfig.items["path"].text, Str("API"))

\* the developer edits the source tree between two builds
EditSource ==
    /\ pc \in {"built", "raised"}
    /\ dpc \in DeployEnded
    /\ calls < MaxCalls
    /\ ~ edited
    /\ edited' = TRUE
    /\ \E src \in Sources :
          /\ src.tree.files = {} => src.lines = PlainFile
          /\ tree' = src.tree
          /\ fs' = source_files(config.path, src) @@
                       [p \in {q \in DOMAIN fs : ~ Under(SourceRoot, q)} |-> fs[p]]
    /\ UNCHANGED <<config, built, order, filetree, structure, methods, template, pc,
                   error, identities, builds>>
    /\ UNCHANGED <<fsdirs, exits, deployed, uploaded, dpc, derror, calls>>
    /\ UNCHANGED <<cleanVars, callerVars>>

\* before builder(config) is called with a valid configuration
InitDeploy ==
    /\ userConfig = PyDict(valid_items(Str("src"), "alice", "dev"))
    /\ TestIdle
    /\ config = NoDict
    /\ built = FALSE
    /\ \E src \in Sources :
          /\ src.tree.files = {} => src.lines = PlainFile
          /\ tree = src.tree
          /\ fs = source_files(Str("src"), src)
    /\ order \in {o \in ListingOrders : o[1] = "ANY"}
    /\ filetree = NoDict
    /\ structure = NoDict
    /\ methods = <<>>
    /\ template = NoDict
    /\ pc = "new"
    /\ error = ""
    /\ identities = {}
    /\ builds = 0
    /\ DeployIdle
    /\ CleanIdle

NextDeploy ==
    \/ BuilderInit
    \/ Next
    \/ BuildAgain
    \/ EditSource
    \/ DeployCall
    \/ AwsUpload
    \/ CloudformationDeploy
    \/ DeployReturn

SpecDeploy == InitDeploy /\ [][NextDeploy]_vars

\* a second builder is constructed over the same source tree, checked out or
\* configured elsewhere, once the first has built
NewBuilder ==
    /\ pc = "built"
    /\ builds < MaxBuilds
    /\ \E p \in Roots, d \in Deployers : Construct(p, d, "dev")
    /\ builds' = builds + 1
    /\ UNCHANGED <<tree, order, identities, imported, result>>
    /\ UNCHANGED <<cleanVars, packVars, deployVars>>

NextTwoBuilds ==
    \/ Next
    \/ NewBuilder

SpecTwoBuilds == Init /\ [][NextTwoBuilds]_vars

-----------------------------------------------------------------------------
(* _clean_mjs, one action per line read *)

\* _prepare_temporal_files has reached a staged .mjs file
InitClean ==
    /\ \E stage \in Stages :
          /\ userConfig = PyDict(valid_items(Str("src"), "alice", stage))
          /\ config = builder_init(Str("src"), "alice", stage)
    /\ TestIdle
    /\ fs = <<>>
    /\ DeployIdle
    /\ built = FALSE
    /\ tree = [dirs |-> {}, files |-> {}]
    /\ order \in {o \in ListingOrders : o[1] = "ANY"}
    /\ filetree = NoDict
    /\ structure = NoDict
    /\ methods = <<>>
    /\ template = NoDict
    /\ pc = "prepare"
    /\ error = ""
    /\ identities = {}
    /\ builds = 1
    /\ original \in Files
    /\ staged = original
    /\ lineno = 0
    /\ rules = <<>>
    /\ file_clean = <<>>
    /\ cpc = "idle"
    /\ cerror = ""
    /\ runs = 0
    /\ previous = <<>>

\* file_clean = "", rules = [], open(file_path, "r")
CleanMjsOpen ==
    /\ cpc = "idle"
    /\ pc = "prepare"
    /\ file_clean' = <<>>
    /\ rules' = <<>>
    /\ lineno' = 0
    /\ cpc' = "reading"
    /\ runs' = runs + 1
    /\ UNCHANGED <<original, staged, cerror, previous>>
    /\ UNCHANGED buildVars
    /\ UNCHANGED otherVars

\* one iteration of `for line in f`
CleanMjsLine ==
    /\ cpc = "reading"
    /\ lineno < Len(staged)
    /\ lineno' = lineno + 1
    /\ LET step == clean_line(config, rules, file_clean, staged[lineno + 1])
       IN  /\ rules' = step.rules
           /\ file_clean' = step.file_clean
           /\ cerror' = step.error
           /\ cpc' = IF step.error = "" THEN "reading" ELSE "raised"
    /\ UNCHANGED <<original, staged, runs, previous>>
    /\ UNCHANGED buildVars
    /\ UNCHANGED otherVars

\* the end of the file: open(file_path, "w") and f.write(file_clean)
CleanMjsWrite ==
    /\ cpc = "reading"
    /\ lineno = Len(staged)
    /\ staged' = file_clean
    /\ previous' = staged
    /\ cpc' = "written"
    /\ UNCHANGED <<original, lineno, rules, file_clean, cerror, runs>>
    /\ UNCHANGED buildVars
    /\ UNCHANGED otherVars

NextClean ==
    \/ CleanMjsOpen
    \/ CleanMjsLine
    \/ CleanMjsWrite

SpecClean == InitClean /\ [][NextClean]_vars

\* _clean_mjs is called again on the file it has written
CleanMjsAgain ==
    /\ cpc = "written"
    /\ pc = "prepare"
    /\ runs < MaxRuns
    /\ file_clean' = <<>>
    /\ rules' = <<>>
    /\ lineno' = 0
    /\ cpc' = "reading"
    /\ runs' = runs + 1
    /\ UNCHANGED <<original, staged, cerror, previous>>
    /\ UNCHANGED buildVars
    /\ UNCHANGED otherVars

NextCleanAgain ==
    \/ NextClean
    \/ CleanMjsAgain

SpecCleanAgain == InitClean /\ [][NextCleanAgain]_vars

-----------------------------------------------------------------------------
(* The aggregate template, read back *)

TemplateBuilt == pc \in {"apigateway", "built"}

Methods == {methods[i].value : i \in 1..Len(methods)}

StackNodes == {k \in DOMAIN template : template[k].Type = "AWS::CloudFormation::Stack"}

\* the synthesized CORS nodes: OPTIONS methods with a mock integration
CorsNodes ==
    {k \in DOMAIN template :
        /\ template[k].Type = "AWS::ApiGateway::Method"
        /\ template[k].HttpMethod = "OPTIONS"
        /\ template[k].Integration = "MOCK"}

ResourceNodes ==
    {k \in DOMAIN template : template[k].Type = "AWS::ApiGateway::Resource"}

\* how a node refers to the resource of a path: the root for the empty path
ResourceRef(r) == IF r = <<>> THEN RootResourceId ELSE Ref(ResourceName(r))

SynthesizedFor(r) == {k \in CorsNodes : template[k].ResourceId = ResourceRef(r)}

HasExplicitOptions(r) == \E m \in Methods : m.resource = r /\ m.method = "OPTIONS"

\* the resource paths that carry an endpoint
MethodPaths == {m.resource : m \in Methods}

\* every non-empty prefix of an endpoint's resource path
PrefixPaths ==
    UNION {{join(SubSeq(split(r), 1, n)) : n \in 1..Len(split(r))} : r \in MethodPaths}
        \ {<<>>}

ParentPath(r) == join(SubSeq(split(r), 1, Len(split(r)) - 1))

\* the path spelled by a resource node and its chain of parents; "?" when the
\* chain leaves the template or does not end within fuel steps
RECURSIVE PathOfNode(_, _)
PathOfNode(k, fuel) ==
    IF fuel = 0 \/ k \notin ResourceNodes THEN Str("?")
    ELSE IF template[k].ParentId = RootResourceId THEN template[k].PathPart
    ELSE IF template[k].ParentId.kind # "Ref" THEN Str("?")
    ELSE PathOfNode(template[k].ParentId.target, fuel - 1)
             \o <<"/">> \o template[k].PathPart

-----------------------------------------------------------------------------
(* C1: after _aws_build_apigateway the DependsOn list of the deployment     *)
(* node names every nested-stack node and every synthesized CORS OPTIONS    *)
(* node of the aggregate template.                                          *)
C1_DeploymentDependsOnAll ==
    TemplateBuilt =>
        \A k \in StackNodes \cup CorsNodes :
            k \in Range(template[DeploymentName(config)].DependsOn)

(* C2, as claimed: every resource path a ResourceNode is created for (every *)
(* non-empty prefix of an endpoint's resource path) that has no explicit    *)
(* OPTIONS endpoint has exactly one synthesized CORS OPTIONS node.          *)
C2_CorsForEveryPrefix ==
    TemplateBuilt =>
        \A r \in PrefixPaths :
            ~ HasExplicitOptions(r) => Cardinality(SynthesizedFor(r)) = 1

(* C2, amended: every resource path that carries at least one endpoint (the *)
(* API root included) and has no explicit OPTIONS endpoint has exactly one  *)
(* synthesized CORS OPTIONS node.                                           *)
C2_CorsForMethodPaths ==
    TemplateBuilt =>
        \A r \in MethodPaths :
            ~ HasExplicitOptions(r) =>
                /\ Cardinality(SynthesizedFor(r)) = 1
                /\ SynthesizedFor(r) = {CorsName(r)}

C2_Witness ==
    /\ TemplateBuilt
    /\ \E r \in MethodPaths :
          /\ Len(split(r)) > 1
          /\ ~ HasExplicitOptions(r)
          /\ SynthesizedFor(r) = {CorsName(r)}
          /\ ParentPath(r) \notin MethodPaths

(* C3: a resource path with an explicit OPTIONS endpoint gets no            *)
(* synthesized OPTIONS node, and the nested-stack node of the explicit      *)
(* OPTIONS endpoint is in the aggregate template as it was written, in      *)
(* whatever order the endpoints are enumerated.                             *)
C3_ExplicitOptionsWins ==
    TemplateBuilt =>
        \A m \in Methods :
            m.method = "OPTIONS" =>
                /\ SynthesizedFor(m.resource) = {}
                /\ CorsName(m.resource) \notin DOMAIN template
                /\ StackName(m) \in StackNodes
                /\ template[StackName(m)] = stack_node(config, m)

C3_Witness ==
    /\ TemplateBuilt
    /\ \E m, g \in Methods :
          /\ m.method = "OPTIONS"
          /\ g.method = "GET"
          /\ g.resource = m.resource
          /\ m.resource # <<>>
          /\ StackName(m) \in StackNodes
          /\ StackName(g) \in StackNodes

(* C4: every non-empty prefix of an endpoint's resource path has exactly    *)
(* one ResourceNode; its parent reference is the ResourceNode of the path   *)
(* without its last segment, or the gateway root for a one-segment path;    *)
(* every parent exists and every parent chain ends at the root.             *)
C4_ResourceNodePerPrefix ==
    TemplateBuilt =>
        \A r \in PrefixPaths :
            /\ ResourceName(r) \in ResourceNodes
            /\ template[ResourceName(r)].ParentId =
                  (IF Len(split(r)) = 1 THEN RootResourceId
                   ELSE Ref(ResourceName(ParentPath(r))))
            /\ template[ResourceName(r)].ParentId # RootResourceId
                  => template[ResourceName(r)].ParentId.target \in ResourceNodes
            /\ {k \in ResourceNodes : PathOfNode(k, Cardinality(ResourceNodes)) = r}
                  = {ResourceName(r)}

C4_Witness ==
    /\ TemplateBuilt
    /\ \E r \in PrefixPaths :
          /\ Len(split(r)) > 1
          /\ ParentPath(r) \notin MethodPaths
          /\ PathOfNode(ResourceName(r), Cardinality(ResourceNodes)) = r

(* C5: the resource path of every verb leaf found by _get_methods is the    *)
(* directory segments between the API source root and the verb leaf joined  *)
(* by "/", wherever the configured source root lies.                        *)
C5_ResourceIsRelativePath ==
    \A p \in DOMAIN structure :
        \A m \in Methods :
            m.path_sources = os_path_join(config.path_sources, RelPath(p))
                => m.resource = RelPath(SubSeq(p, 1, Len(p) - 1))

(* C6: the identity hash of an endpoint is a function of (deployer,         *)
(* resource path, verb) only: two builds that agree on the three produce    *)
(* the same hash, also when the source root lies elsewhere.                 *)
C6_HashFromDeployerPathVerb ==
    \A a, b \in identities :
        (/\ a.deployer = b.deployer
         /\ a.logical = b.logical
         /\ a.resource = b.resource
         /\ a.method = b.method) => a.hash = b.hash

-----------------------------------------------------------------------------
(* A preprocessed file, read as nested IF ... ENDIF blocks *)

\* IF lines minus ENDIF lines among the first k lines of f
Depth(f, k) ==
    Cardinality({x \in 1..k : IsIf(f[x])}) - Cardinality({x \in 1..k : IsEndif(f[x])})

\* the IF of line j encloses line i
OpenAt(f, j, i) ==
    /\ j < i
    /\ IsIf(f[j])
    /\ \A k \in j..(i - 1) : Depth(f, k) >= Depth(f, j)

\* equal numbers of IF and ENDIF lines, correctly nested
Nested(f) ==
    /\ \A k \in 1..Len(f) : Depth(f, k) >= 0
    /\ Depth(f, Len(f)) = 0

\* nested, every IF has a key and a value, no IF repeats one that encloses it
WellFormed(f) ==
    /\ Nested(f)
    /\ \A i \in 1..Len(f) : IsIf(f[i]) => Len(f[i]) = 4
    /\ \A i, j \in 1..Len(f) : (OpenAt(f, j, i) /\ IsIf(f[i])) => f[j] # f[i]

\* the condition of an IF line holds: config[key] equals the expected value.
\* With asClaimed, "stage" names the configured stage, as the spec has it;
\* without, the keys are those of self.config and any other key holds nowhere.
CondHolds(line, asClaimed) ==
    LET key == IF asClaimed /\ line[3] = "stage" THEN "aws_stage" ELSE line[3]
    IN  /\ Len(line) >= 4
        /\ key \in DOMAIN config
        /\ config[key] = Str(line[4])

Kept(f, i, asClaimed) ==
    /\ ~ IsIf(f[i])
    /\ ~ IsEndif(f[i])
    /\ \A j \in 1..(i - 1) : OpenAt(f, j, i) => CondHolds(f[j], asClaimed)

RECURSIVE KeptFrom(_, _, _)
KeptFrom(f, i, asClaimed) ==
    IF i > Len(f) THEN <<>>
    ELSE (IF Kept(f, i, asClaimed) THEN <<f[i]>> ELSE <<>>)
             \o KeptFrom(f, i + 1, asClaimed)

\* the lines of f that every enclosing condition lets through
Expected(f, asClaimed) == KeptFrom(f, 1, asClaimed)

CleanEnded == cpc \in {"written", "raised"}

(* C7, as claimed: after _clean_mjs on a file free of directive errors the  *)
(* output holds exactly the non-directive lines whose enclosing conditions  *)
(* all hold in the configuration, so the lines between "//// IF stage prod" *)
(* and "//// ENDIF" are gone when the configured stage is dev.              *)
C7_KeptIffConditionsHold ==
    (CleanEnded /\ WellFormed(original)) => staged = Expected(original, TRUE)

(* C7, amended: when _clean_mjs writes its output, the output holds exactly *)
(* the non-directive lines whose enclosing conditions all name a key of     *)
(* self.config and equal its value (the stage is the key aws_stage); a      *)
(* content line reached under a condition whose key self.config lacks       *)
(* raises KeyError and the staged file keeps every line.                    *)
C7_KeptIffConfigConditionsHold ==
    /\ cpc = "written" => staged = Expected(original, FALSE)
    /\ cerror = "KeyError" =>
          /\ staged = original
          /\ \E j \in 1..(lineno - 1) :
                /\ OpenAt(original, j, lineno)
                /\ original[j][3] \notin DOMAIN config

C7_Witness ==
    /\ cpc = "written"
    /\ WellFormed(original)
    /\ config.aws_stage = Str("dev")
    /\ \E i, j, k \in 1..Len(original) :
          /\ original[j] = IfLine("aws_stage", "prod")
          /\ original[k] = IfLine("name", "MyAPI")
          /\ OpenAt(original, j, i)
          /\ OpenAt(original, k, i)
          /\ j < k
          /\ original[i] = Str("a")
          /\ Str("a") \notin Range(staged)

(* C8: a file that ends while the condition stack is not empty fails with   *)
(* an unbalanced-directive error and is not rewritten: _clean_mjs writes    *)
(* its output only with an empty stack.                                     *)
C8_UnclosedIfNotWritten ==
    cpc = "written" => rules = <<>>

(* C9: an ENDIF line reached with an empty stack raises "No rule to close", *)
(* and that error is never raised for a file whose IF and ENDIF lines are   *)
(* equal in number and correctly nested.                                    *)
C9_EndifBalance ==
    [][/\ (/\ cpc = "reading"
           /\ lineno < Len(staged)
           /\ IsEndif(staged[lineno + 1])
           /\ rules = <<>>)
          => (cpc' = "raised" /\ cerror' = "No rule to close")
       /\ cerror' = "No rule to close" => ~ Nested(original)]_vars

C9_Witness ==
    /\ cpc = "raised"
    /\ cerror = "No rule to close"
    /\ \E j \in 1..(lineno - 1) : IsEndif(original[j])

\* the rule an IF line states
RuleOf(line) == <<line[3], "==", line[4]>>

(* C10: an IF whose (key, value) condition is on the stack is rejected with *)
(* "Rule is already in use", so the stack never holds a condition twice; an *)
(* IF whose condition is not on the stack, one popped by its ENDIF          *)
(* included, is pushed.                                                     *)
C10_DuplicateConditionRejected ==
    [][/\ (/\ cpc = "reading"
           /\ lineno < Len(staged)
           /\ IsIf(staged[lineno + 1])
           /\ Len(staged[lineno + 1]) = 4)
          => IF RuleOf(staged[lineno + 1]) \in Range(rules)
             THEN cpc' = "raised" /\ cerror' = "Rule is already in use"
                  /\ staged' = staged
             ELSE cpc' = "reading" /\ rules' = Append(rules, RuleOf(staged[lineno + 1]))
       /\ \A i, j \in 1..Len(rules') : rules'[i] = rules'[j] => i = j]_vars

C10_Witness ==
    /\ cpc = "reading"
    /\ lineno = 3
    /\ IsIf(original[1])
    /\ IsEndif(original[2])
    /\ original[3] = original[1]
    /\ rules = <<RuleOf(original[1])>>

-----------------------------------------------------------------------------
(* C11: _clean_mjs is idempotent: when a run of _clean_mjs on a staged file *)
(* has written its output, a further run on that output under the same      *)
(* configuration raises nothing and writes the file back unchanged.         *)
C11_CleanIdempotent ==
    /\ (runs >= 2 /\ CleanEnded) => (cpc = "written" /\ staged = previous)
    /\ runs >= 2 => cerror = ""

C11_Witness ==
    /\ runs = 2
    /\ cpc = "written"
    /\ staged # original
    /\ staged # <<>>
    /\ \E i \in 1..Len(original) : IsEndif(original[i])

-----------------------------------------------------------------------------
(* The source tree, read as directories *)

\* directory d of the tree has no subdirectory
LeafDir(d) ==
    ~ \E e \in tree.dirs : Len(e) = Len(d) + 1 /\ SubSeq(e, 1, Len(d)) = d

\* the directories with no subdirectory whose name is no HTTP verb
BadLeaves == {d \in tree.dirs : LeafDir(d) /\ d[Len(d)] \notin http_methods}

StructureChecked == pc \notin {"constructed", "filetree"}

(* C12: _get_structure raises "Invalid HTTP method" exactly when the source *)
(* tree holds a directory with no subdirectory whose name is no HTTP verb;  *)
(* a tree whose leaf directories are all verbs is accepted, files next to   *)
(* verb directories included.                                               *)
C12_InvalidIffNonVerbLeaf ==
    StructureChecked =>
        /\ (error = "Invalid HTTP method") <=> (BadLeaves # {})
        /\ error = "Invalid HTTP method" => pc = "raised"
        /\ BadLeaves = {} => structure = [d \in tree.dirs |-> "dict"]

C12_Witness ==
    /\ pc = "structure"
    /\ \E f \in tree.files, d \in tree.dirs :
          /\ Len(f) = 2
          /\ Len(d) = 2
          /\ f[1] = d[1]
          /\ d[2] \in http_methods

\* the verb leaves of the accepted structure
VerbLeaves ==
    {p \in DOMAIN structure :
        ~ \E q \in DOMAIN structure : Len(q) = Len(p) + 1 /\ SubSeq(q, 1, Len(p)) = p}

\* the descriptors made for the directory at p
DescriptorsOf(p) ==
    {m \in Methods : m.path_sources = os_path_join(config.path_sources, RelPath(p))}

MethodsCollected ==
    pc \in {"methods", "temporal", "copied", "prepared", "zipped", "aws_methods",
            "apigateway", "built"}

(* C13: after _get_methods on an accepted structure there is exactly one    *)
(* descriptor per verb leaf: no verb leaf is left out, also below a         *)
(* directory that is itself named like a verb (ANY), and no descriptor is   *)
(* made for a directory that is not a leaf.                                 *)
C13_OneDescriptorPerVerbLeaf ==
    MethodsCollected =>
        /\ \A p \in VerbLeaves :
              /\ Cardinality(DescriptorsOf(p)) = 1
              /\ \A m \in DescriptorsOf(p) : m.method = p[Len(p)]
        /\ \A m \in Methods : \E p \in VerbLeaves : m \in DescriptorsOf(p)
        /\ Len(methods) = Cardinality(VerbLeaves)

-----------------------------------------------------------------------------
(* The constructor, read back *)

KeyErrors == {"KeyError: " \o k : k \in OptionalKeys}

\* the value is a string with a character that is no blank
NonBlankString(v) ==
    /\ v.type = "str"
    /\ \E i \in 1..Len(v.text) : v.text[i] # " "

\* a required key of the argument is missing, no string, empty or blank, or
\* the provider is not aws
RequiredInvalid ==
    \/ userConfig.type # "dict"
    \/ \E k \in RequiredKeys :
          \/ k \notin DOMAIN userConfig.items
          \/ ~ NonBlankString(userConfig.items[k])
    \/ userConfig.items["provider"].text # Str("aws")

InitDone == pc # "new"

(* C14: whenever a required field (path, name, deployer, provider,          *)
(* aws_profile, aws_region, aws_bucket, aws_stage, aws_stack) is missing,   *)
(* no string, empty or blank, or the provider is not aws, __init__ raises   *)
(* an error and no builder comes to be; the error is a ValueError of the    *)
(* constructor when the configuration holds the three optional fields.      *)
C14_InvalidRequiredRejected ==
    (InitDone /\ RequiredInvalid) =>
        /\ pc = "rejected"
        /\ error # ""
        /\ config = NoDict
        /\ OptionalKeys \subseteq DOMAIN userConfig.items => error \notin KeyErrors

C14_Witness ==
    /\ pc = "rejected"
    /\ error = "Invalid provider"
    /\ userConfig.items["provider"] = PyStr(Str("gcp"))
    /\ \A k \in RequiredKeys \ {"provider"} :
          /\ k \in DOMAIN userConfig.items
          /\ NonBlankString(userConfig.items[k])

(* C15: version, description and title are optional: with every required   *)
(* field valid, __init__ returns a builder whichever of the three the       *)
(* configuration leaves out.                                                *)
C15_OptionalMayBeAbsent ==
    (/\ InitDone
     /\ ~ RequiredInvalid
     /\ userConfig.items["path"].text \in PathsWithAPI
     /\ \A k \in OptionalKeys \cap DOMAIN userConfig.items :
            userConfig.items[k].type = "str")
        => pc # "rejected"

(* C18: the call api_builder(config) of the test module, made with a        *)
(* configuration that holds only name and version, returns a dictionary     *)
(* whose status is "API built" and whose config is the configuration passed.*)
C18_ApiBuilderReturnsBuilt ==
    (userConfig = TestConfig /\ imported # "") =>
        /\ imported = "api_builder"
        /\ result = [status |-> "API built", config |-> userConfig]

-----------------------------------------------------------------------------
(* Packaging, read back *)

\* a cp or a zip of this build ended with a status other than 0
PackagingFailed == \E e \in exits : e.cmd \in {"cp", "zip"}

(* C16: when the staging copy or the archive creation fails for a method,   *)
(* build() ends with an exception: it does not go on to a later step, no    *)
(* template is generated and built is not set.                              *)
C16_PackagingFailureAborts ==
    PackagingFailed =>
        /\ pc = "raised"
        /\ error # ""
        /\ template = NoDict
        /\ ~ built

\* the files below the source root are what they were
SourceUnchanged ==
    /\ {p \in DOMAIN fs' : Under(SourceRoot, p)} = {p \in DOMAIN fs : Under(SourceRoot, p)}
    /\ \A p \in DOMAIN fs : Under(SourceRoot, p) => fs'[p] = fs[p]

\* the step is the developer's edit, not one of build() or deploy()
EditStep == ~ edited /\ edited'

(* C17: no step of build() writes below the source root: every source file  *)
(* holds after the step what it held before, whatever the topology and      *)
(* whether _clean_mjs wrote the staged copy or raised; the preprocessor     *)
(* rewrites files below path_temporal only.                                 *)
C17_SourceTreeUntouched ==
    [][~ EditStep => SourceUnchanged]_vars

C17_Witness ==
    /\ pc = "prepared"
    /\ \E f \in tree.files :
          /\ fs[SourcePath(config.path, f)] \notin {PlainFile}
          /\ \E p \in DOMAIN fs :
                /\ Under(config.path_temporal, p)
                /\ endswith_mjs(p)
                /\ fs[p] = <<Str("b")>>

(* C19: deploy() uploads to the bucket only when the most recent build()    *)
(* has returned: a deploy() called after a build() that raised ends with an *)
(* exception, uploads nothing and leaves deployed as it was.                *)
C19_DeployOnlyAfterGoodBuild ==
    [][/\ uploaded' # uploaded => pc = "built"
       /\ (pc = "raised" /\ dpc' # dpc /\ dpc' \in DeployEnded)
             => (dpc' = "raised" /\ deployed' = deployed /\ uploaded' = uploaded)]_vars

\* the step is a call of deploy()
DeployCallStep == calls' = calls + 1 /\ pc' = pc

(* C20: deployed implies built; deploy() on a builder that has not built    *)
(* raises before _aws_deploy is entered and changes neither built nor       *)
(* deployed; deployed becomes True only when the upload and the stack       *)
(* submission of _aws_deploy have returned.                                 *)
C20_DeployedImpliesBuilt ==
    [][/\ deployed' => built'
       /\ dpc' \in {"aws_deploy", "uploaded", "submitted"} => built'
       /\ (DeployCallStep /\ ~ built)
             => /\ dpc' = "raised"
                /\ derror' = "API must be built before deploying"
                /\ UNCHANGED <<built, deployed, uploaded>>
       /\ deployed' # deployed
             => (dpc = "submitted" /\ dpc' = "returned" /\ derror = "")]_vars

C20_Witness ==
    /\ pc = "constructed"
    /\ ~ built
    /\ ~ deployed
    /\ dpc = "raised"
    /\ derror = "API must be built before deploying"
    /\ calls = 1

=============================================================================
